---------------------------- MODULE Spec2Model ----------------------------
(***************************************************************************)
(* A model of the paper crawler: the fetcher with its retry loop           *)
(* (src/src/crawlers/base.py), the page parsers                            *)
(* (src/src/crawlers/conference_crawlers.py), the manager with its         *)
(* deduplicator (src/main.py) and the SQLite storage                       *)
(* (src/src/models/database.py).                                           *)
(*                                                                         *)
(* The program is single-threaded and synchronous, so every public         *)
(* operation is one atomic action.  The last completed operation, with its *)
(* arguments and its outcome, is kept in the variable call.                *)
(***************************************************************************)
EXTENDS Integers, Sequences, FiniteSets

VARIABLES
    retry_times,    \* BaseCrawler.retry_times  (config "retry_times")
    delay,          \* BaseCrawler.delay        (config "delay_between_requests")
    conferences,    \* CrawlerManager.config["conferences"]
    papers,         \* the rows of table papers
    next_id,        \* the next AUTOINCREMENT id of table papers
    crawl_history,  \* the rows of table crawl_history, in insertion order
    now,            \* the wall clock, in ticks
    call,           \* history: the last completed operation
    ncrawls,        \* history: number of calls of crawl_conference so far
    upserted        \* history: natural keys whose upsert has succeeded

vars == <<retry_times, delay, conferences, papers, next_id, crawl_history,
          now, call, ncrawls, upserted>>

---------------------------------------------------------------------------
(* Bounds of the model.                                                    *)

MaxRetries == 3     \* retry_times is drawn from 0..MaxRetries
MaxLen     == 3     \* longest sequence handed to _deduplicate_papers
MaxCrawls  == 1     \* calls of crawl_conference after which no crawl starts
MaxEntries == 1     \* most entries on one listing page
MaxClock   == 1     \* last tick of the wall clock

---------------------------------------------------------------------------
(* Values.                                                                 *)

\* Python None and SQL NULL in a text column.
NULL == "NULL"

\* An optional argument: <<>> is None (not given), <<v>> is the value v.
None == <<>>
Some(v) == <<v>>

\* Python truthiness of an optional string / integer argument.
TruthyStr(o) == o # None /\ o[1] # ""
TruthyInt(o) == o # None /\ o[1] # 0

Min(a, b) == IF a <= b THEN a ELSE b

RECURSIVE Pow2(_)
Pow2(n) == IF n = 0 THEN 1 ELSE 2 * Pow2(n - 1)

\* The natural key of a record or of a row.
Key(p) == <<p.title, p.conference, p.year>>

NoCall == [op |-> "none"]

---------------------------------------------------------------------------
(* The fetcher: BaseCrawler.fetch_page.                                    *)
(*                                                                         *)
(* The transport (requests.get followed by raise_for_status) is a script:  *)
(* transport[i] is what the i-th GET of the call meets, either the body of *)
(* a 2xx response or the requests.RequestException it ends in.             *)

Bodies == {"html1", "html2"}
RequestExceptions == {"ConnectionError", "HTTPError"}
Transports == [1..MaxRetries -> Bodies \cup RequestExceptions]

Event(type, arg) == [type |-> type, arg |-> arg]

\* One pass of "for attempt in range(self.retry_times)" from index attempt
\* on; events are the GETs and the sleeps made so far, in order.
RECURSIVE fetch_loop(_, _, _, _, _)
fetch_loop(attempt, n, d, transport, events) ==
    IF attempt >= n
    THEN \* the loop ran out: return ""
         [outcome |-> "return", value |-> "", events |-> events]
    ELSE LET response == transport[attempt + 1]
             got == Append(events, Event("GET", attempt))
         IN  IF response \in Bodies
             THEN \* time.sleep(self.delay); return response.text
                  [outcome |-> "return", value |-> response,
                   events |-> Append(got, Event("delay", d))]
             ELSE IF attempt < n - 1
                  THEN \* time.sleep(2**attempt), next attempt
                       fetch_loop(attempt + 1, n, d, transport,
                                  Append(got, Event("backoff", Pow2(attempt))))
                  ELSE \* raise
                       [outcome |-> "raise", value |-> response,
                        events |-> got]

\* Mutant: the error of the last attempt is swallowed and "" is returned.
fetch_page_swallow(n, d, transport) ==
    LET r == fetch_loop(0, n, d, transport, <<>>)
    IN  IF r.outcome = "raise"
        THEN [r EXCEPT !.outcome = "return", !.value = ""]
        ELSE r

\* Mutant: the wait after a failed attempt is one second, whatever the
\* attempt.
fetch_page_flat_backoff(n, d, transport) ==
    LET r == fetch_loop(0, n, d, transport, <<>>)
    IN  [r EXCEPT !.events =
            [k \in 1..Len(r.events) |->
                IF r.events[k].type = "backoff"
                THEN Event("backoff", 1)
                ELSE r.events[k]]]

fetch_page(n, d, transport) == fetch_loop(0, n, d, transport, <<>>)

\* Number of GET attempts among the events of a call.
Gets(events) == Cardinality({i \in 1..Len(events) : events[i].type = "GET"})

\* The first attempt (1-based) among the first n that succeeds, 0 if none.
FirstSuccess(transport, n) ==
    LET ok == {i \in 1..n : transport[i] \in Bodies}
    IN  IF ok = {} THEN 0 ELSE CHOOSE i \in ok : \A j \in ok : i <= j

---------------------------------------------------------------------------
(* The deduplicator: CrawlerManager._deduplicate_papers.                   *)

RECURSIVE dedup_loop(_, _, _, _)
dedup_loop(ps, i, seen, unique) ==
    IF i > Len(ps) THEN unique
    ELSE LET paper == ps[i]
             key == <<paper.title, paper.conference, paper.year>>
         IN  IF key \notin seen
             THEN dedup_loop(ps, i + 1, seen \cup {key}, Append(unique, paper))
             ELSE dedup_loop(ps, i + 1, seen, unique)

\* Mutant: the loop starts at the second record.
dedup_skip_first(ps) == dedup_loop(ps, 2, {}, <<>>)

\* Mutant: the last occurrence of a key replaces the one kept.
RECURSIVE dedup_keep_last_loop(_, _, _)
dedup_keep_last_loop(ps, i, unique) ==
    IF i > Len(ps) THEN unique
    ELSE LET paper == ps[i]
             dup == {j \in 1..Len(unique) : Key(unique[j]) = Key(paper)}
         IN  IF dup = {}
             THEN dedup_keep_last_loop(ps, i + 1, Append(unique, paper))
             ELSE dedup_keep_last_loop(ps, i + 1,
                      [j \in 1..Len(unique) |->
                          IF j \in dup THEN paper ELSE unique[j]])

dedup_keep_last(ps) == dedup_keep_last_loop(ps, 1, <<>>)

_deduplicate_papers(ps) == dedup_loop(ps, 1, {}, <<>>)

---------------------------------------------------------------------------
(* Paper records.                                                          *)

Paper(title, conference, year, authors, abstract, pdf_url, paper_url, doi) ==
    [title |-> title, authors |-> authors, conference |-> conference,
     year |-> year, abstract |-> abstract, pdf_url |-> pdf_url,
     paper_url |-> paper_url, doi |-> doi]

\* Two contents of a record, the second with every optional field absent.
PaperA(title, conference, year) ==
    Paper(title, conference, year, "A", "abs", "pdf", "url", "doi")
PaperB(title, conference, year) ==
    Paper(title, conference, year, "B", NULL, NULL, NULL, NULL)

\* The records handed to the deduplicator: three natural keys that differ in
\* title, in conference and in year, each with both contents.
InputKeys == {<<"X", "CCS", 2023>>, <<"Y", "CCS", 2023>>, <<"X", "NDSS", 0>>}

InputPapers ==
    {PaperA(k[1], k[2], k[3]) : k \in InputKeys}
    \cup {PaperB(k[1], k[2], k[3]) : k \in InputKeys}

\* The records handed to the storage: the same keys (year 0 included), the
\* first key with both contents.
StoredPapers ==
    {PaperA("X", "CCS", 2023), PaperB("X", "CCS", 2023),
     PaperA("Y", "CCS", 2023), PaperB("X", "NDSS", 0)}

\* A record without a title (paper_data.get("title") is None).
Untitled == Paper(NULL, "CCS", 2023, "A", NULL, NULL, NULL, NULL)

SeqsUpTo(S, n) == UNION {[1..m -> S] : m \in 0..n}

---------------------------------------------------------------------------
(* The storage: DatabaseManager.                                           *)
(*                                                                         *)
(* A row of table papers carries the columns of the CREATE TABLE.  Both    *)
(* CURRENT_TIMESTAMP and datetime.now() read the wall clock now.           *)

Row(id, p, downloaded, local_path, created_at, updated_at) ==
    [id |-> id, title |-> p.title, authors |-> p.authors,
     conference |-> p.conference, year |-> p.year, abstract |-> p.abstract,
     pdf_url |-> p.pdf_url, paper_url |-> p.paper_url, doi |-> p.doi,
     downloaded |-> downloaded, local_path |-> local_path,
     created_at |-> created_at, updated_at |-> updated_at]

\* The record a row holds, as a consumer of get_papers reads it.
PaperOf(r) ==
    Paper(r.title, r.conference, r.year, r.authors, r.abstract, r.pdf_url,
          r.paper_url, r.doi)

\* UNIQUE(title, conference, year): the rows an insert of p conflicts with.
Conflicts(rows, p) == {r \in rows : Key(r) = Key(p)}

\* Mutant: a plain INSERT into a table without the UNIQUE constraint.
insert_paper_no_unique(rows, nid, p, t, fault) ==
    IF fault = "connect"
    THEN [ok |-> FALSE, raised |-> TRUE, papers |-> rows, next_id |-> nid]
    ELSE IF fault = "execute" \/ p.title = NULL \/ p.conference = NULL
    THEN [ok |-> FALSE, raised |-> FALSE, papers |-> rows, next_id |-> nid]
    ELSE [ok |-> TRUE, raised |-> FALSE,
          papers |-> rows \cup {Row(nid, p, FALSE, NULL, t, t)},
          next_id |-> nid + 1]

\* Mutant: INSERT OR REPLACE, which deletes the conflicting row and inserts
\* a fresh one.
insert_paper_replace(rows, nid, p, t, fault) ==
    IF fault = "connect"
    THEN [ok |-> FALSE, raised |-> TRUE, papers |-> rows, next_id |-> nid]
    ELSE IF fault = "execute" \/ p.title = NULL \/ p.conference = NULL
    THEN [ok |-> FALSE, raised |-> FALSE, papers |-> rows, next_id |-> nid]
    ELSE [ok |-> TRUE, raised |-> FALSE,
          papers |-> (rows \ Conflicts(rows, p))
                     \cup {Row(nid, p, FALSE, NULL, t, t)},
          next_id |-> nid + 1]

\* Mutant: the conflict clause keeps the stored authors.
insert_paper_keep_authors(rows, nid, p, t, fault) ==
    IF fault = "connect"
    THEN [ok |-> FALSE, raised |-> TRUE, papers |-> rows, next_id |-> nid]
    ELSE IF fault = "execute" \/ p.title = NULL \/ p.conference = NULL
    THEN [ok |-> FALSE, raised |-> FALSE, papers |-> rows, next_id |-> nid]
    ELSE IF Conflicts(rows, p) # {}
         THEN [ok |-> TRUE, raised |-> FALSE,
               papers |-> {IF Key(r) = Key(p)
                           THEN [r EXCEPT !.abstract = p.abstract,
                                          !.pdf_url = p.pdf_url,
                                          !.paper_url = p.paper_url,
                                          !.doi = p.doi,
                                          !.updated_at = t]
                           ELSE r : r \in rows},
               next_id |-> nid]
         ELSE [ok |-> TRUE, raised |-> FALSE,
               papers |-> rows \cup {Row(nid, p, FALSE, NULL, t, t)},
               next_id |-> nid + 1]

\* What the database file does to one call of insert_paper: nothing, an
\* exception of cursor.execute or conn.commit (an I/O failure such as a
\* locked database), or an exception of sqlite3.connect (the file cannot be
\* opened).
Faults == {"none", "execute", "connect"}

\* insert_paper on the table rows with next AUTOINCREMENT id nid, at time t.
\* sqlite3.connect and conn.cursor() come before the try block, so their
\* exception leaves insert_paper (raised).  An exception of cursor.execute
\* or conn.commit, a NULL title or conference against NOT NULL included
\* (year is always an integer here), is caught and False is returned.
insert_paper(rows, nid, p, t, fault) ==
    IF fault = "connect"
    THEN [ok |-> FALSE, raised |-> TRUE, papers |-> rows, next_id |-> nid]
    ELSE IF fault = "execute" \/ p.title = NULL \/ p.conference = NULL
    THEN [ok |-> FALSE, raised |-> FALSE, papers |-> rows, next_id |-> nid]
    ELSE IF Conflicts(rows, p) # {}
         THEN \* ON CONFLICT(title, conference, year) DO UPDATE SET ...
              [ok |-> TRUE, raised |-> FALSE,
               papers |-> {IF Key(r) = Key(p)
                           THEN [r EXCEPT !.authors = p.authors,
                                          !.abstract = p.abstract,
                                          !.pdf_url = p.pdf_url,
                                          !.paper_url = p.paper_url,
                                          !.doi = p.doi,
                                          !.updated_at = t]
                           ELSE r : r \in rows},
               next_id |-> nid]
         ELSE \* a new row: downloaded DEFAULT 0, local_path NULL,
              \* created_at DEFAULT CURRENT_TIMESTAMP
              [ok |-> TRUE, raised |-> FALSE,
               papers |-> rows \cup {Row(nid, p, FALSE, NULL, t, t)},
               next_id |-> nid + 1]

\* insert_papers_batch: faults[i] is the fault the insert_paper of ps[i]
\* meets; saved collects the positions that succeeded.  An exception that
\* leaves insert_paper leaves the loop and the batch (raised): nothing is
\* returned, and count is then the success_count reached so far.
RECURSIVE batch_loop(_, _, _, _, _, _, _)
batch_loop(rows, nid, ps, i, t, faults, saved) ==
    IF i > Len(ps)
    THEN [raised |-> FALSE, count |-> Cardinality(saved), saved |-> saved,
          papers |-> rows, next_id |-> nid]
    ELSE LET r == insert_paper(rows, nid, ps[i], t, faults[i])
         IN  IF r.raised
             THEN [raised |-> TRUE, count |-> Cardinality(saved),
                   saved |-> saved, papers |-> rows, next_id |-> nid]
             ELSE batch_loop(r.papers, r.next_id, ps, i + 1, t, faults,
                             IF r.ok THEN saved \cup {i} ELSE saved)

insert_papers_batch(rows, nid, ps, t, faults) ==
    batch_loop(rows, nid, ps, 1, t, faults, {})

\* ORDER BY created_at DESC: every arrangement of the rows S in which
\* created_at never increases (SQL leaves the order of ties open).
Orderings(S) ==
    {s \in [1..Cardinality(S) -> S] :
        /\ \A i, j \in 1..Cardinality(S) : i # j => s[i] # s[j]
        /\ \A i, j \in 1..Cardinality(S) :
               i < j => s[i].created_at >= s[j].created_at}

Prefix(s, n) == SubSeq(s, 1, Min(n, Len(s)))

\* get_papers: the lists the query may return.  A predicate is added to the
\* query only when its argument is truthy ("if conference:", "if year:",
\* "if limit:").
get_papers(rows, conference, year, limit) ==
    LET matching == {r \in rows :
                        /\ TruthyStr(conference) => r.conference = conference[1]
                        /\ TruthyInt(year) => r.year = year[1]}
    IN  {IF TruthyInt(limit) THEN Prefix(s, limit[1]) ELSE s :
            s \in Orderings(matching)}

\* log_crawl_history: one more row of crawl_history.
log_crawl_history(history, conference, year, papers_count, status, t) ==
    Append(history, [id |-> Len(history) + 1, conference |-> conference,
                     year |-> year, papers_count |-> papers_count,
                     status |-> status, error_message |-> NULL,
                     created_at |-> t])

\* get_statistics()["total_papers"]: SELECT COUNT(*) FROM papers.
total_papers(rows) == Cardinality(rows)

---------------------------------------------------------------------------
(* The page parsers: DBLPCrawler and the crawlers of conference_crawlers.  *)
(*                                                                         *)
(* A listing page is the sequence of its entries; an entry carries what    *)
(* the markup offers for each field, NULL where the markup has none.       *)

Entry(title) ==
    [title |-> title, authors |-> "A", abstract |-> "abs", pdf_url |-> "pdf",
     paper_url |-> "url", doi |-> "doi"]

Entries == {Entry("X")}

\* The listing pages a site may serve: up to MaxEntries entries (the same
\* paper listed more than once), a page with another paper, and a page
\* whose first entry has no title.
Pages ==
    SeqsUpTo(Entries, MaxEntries)
    \cup {<<Entry("Y")>>, <<Entry(NULL), Entry("X")>>}

Supported == {"NDSS", "USENIX Security", "CCS", "S&P"}

\* _parse_entry / _parse_paper of each crawler class: the fields the class
\* reads from an entry, the others None.
parse_entry(class, conference_name, year, e) ==
    CASE class = "DBLPCrawler" ->
            Paper(e.title, conference_name, year, e.authors, NULL, e.pdf_url,
                  e.paper_url, e.doi)
      [] class = "NDSSCrawler" ->
            Paper(e.title, "NDSS", year, e.authors, NULL, e.pdf_url, NULL, NULL)
      [] class = "USENIXSecurityCrawler" ->
            Paper(e.title, "USENIX Security", year, e.authors, e.abstract,
                  NULL, e.paper_url, NULL)
      [] class = "SPCrawler" ->
            Paper(e.title, "S&P", year, e.authors, NULL, e.pdf_url, NULL, NULL)

\* "if paper: papers.append(paper)": an entry without a title gives None.
RECURSIVE parse_entries(_, _, _, _, _)
parse_entries(class, conference_name, year, entries, i) ==
    IF i > Len(entries) THEN <<>>
    ELSE LET rest == parse_entries(class, conference_name, year, entries, i + 1)
         IN  IF entries[i].title = NULL
             THEN rest
             ELSE <<parse_entry(class, conference_name, year, entries[i])>>
                  \o rest

\* crawler.crawl(year) of a crawler of the given class.  world is what the
\* site does during the call: its transport script and the entries of the
\* page it serves.  fetches counts the calls of fetch_page.  status tells
\* how the call ended: "ok", "caught" (the exception of fetch_page was
\* caught by the crawler's own "except Exception" and the list so far, empty,
\* is returned) or "raised" (an exception left crawl).  Every crawler builds
\* its URL before its try block; only USENIXSecurityCrawler computes on the
\* year there (year % 100), which raises TypeError when the configured year
\* is not an integer: world.crash stands for that case.
crawl(class, conference_name, year, n, d, world) ==
    IF class = "CCSCrawler"
       \/ (class = "DBLPCrawler" /\ conference_name \notin Supported)
    THEN [status |-> "ok", papers |-> <<>>, fetches |-> 0]
    ELSE IF class = "USENIXSecurityCrawler" /\ world.crash
    THEN [status |-> "raised", papers |-> <<>>, fetches |-> 0]
    ELSE LET r == fetch_page(n, d, world.transport)
         IN  IF r.outcome = "return" /\ r.value \in Bodies
             THEN [status |-> "ok",
                   papers |-> parse_entries(class, conference_name, year,
                                            world.entries, 1),
                   fetches |-> 1]
             ELSE IF r.outcome = "return"
             THEN \* a page with no entries
                  [status |-> "ok", papers |-> <<>>, fetches |-> 1]
             ELSE \* "except Exception": logged
                  [status |-> "caught", papers |-> <<>>, fetches |-> 1]

---------------------------------------------------------------------------
(* The manager: CrawlerManager.                                            *)

\* self.crawlers.get(conference_name, [])
crawlers(conference_name) ==
    CASE conference_name = "NDSS" -> <<"DBLPCrawler", "NDSSCrawler">>
      [] conference_name = "USENIX Security" ->
            <<"DBLPCrawler", "USENIXSecurityCrawler">>
      [] conference_name = "CCS" -> <<"DBLPCrawler">>
      [] conference_name = "S&P" -> <<"DBLPCrawler", "SPCrawler">>
      [] OTHER -> <<>>

\* One more crawler's result in the accumulator of the loop: an exception
\* that left crawl is caught by the manager and nothing is extended.
Extend(acc, c) ==
    [all_papers |-> IF c.status = "raised" THEN acc.all_papers
                    ELSE acc.all_papers \o c.papers,
     fetches |-> acc.fetches + c.fetches,
     statuses |-> Append(acc.statuses, c.status),
     yields |-> Append(acc.yields, Len(c.papers))]

\* Mutant: the first crawler that fails ends the loop.
RECURSIVE crawl_loop_abort(_, _, _, _, _, _, _, _)
crawl_loop_abort(cs, i, conference_name, year, n, d, worlds, acc) ==
    IF i > Len(cs) THEN acc
    ELSE LET c == crawl(cs[i], conference_name, year, n, d, worlds[i])
         IN  IF c.status # "ok"
             THEN Extend(acc, c)
             ELSE crawl_loop_abort(cs, i + 1, conference_name, year, n, d,
                                   worlds, Extend(acc, c))

\* "for crawler in crawlers: try: all_papers.extend(crawler.crawl(year))
\* except Exception: ..."
RECURSIVE crawl_loop(_, _, _, _, _, _, _, _)
crawl_loop(cs, i, conference_name, year, n, d, worlds, acc) ==
    IF i > Len(cs) THEN acc
    ELSE LET c == crawl(cs[i], conference_name, year, n, d, worlds[i])
         IN  crawl_loop(cs, i + 1, conference_name, year, n, d, worlds,
                        Extend(acc, c))

\* The outcome of crawl_conference on database db: the database after it
\* and what the call did; raised when an exception left the call.
CrawlOutcome(db, got, unique_papers, saved, raised) ==
    [papers |-> db.papers, next_id |-> db.next_id,
     crawl_history |-> db.crawl_history, fetches |-> got.fetches,
     all_papers |-> got.all_papers, unique_papers |-> unique_papers,
     statuses |-> got.statuses, yields |-> got.yields,
     saved |-> saved, raised |-> raised]

\* Mutant: the attempt of an empty crawl is logged without its status, so
\* with the default "success".
save_and_log_default_status(db, conference_name, year, got, env) ==
    LET unique_papers == _deduplicate_papers(got.all_papers)
        b == insert_papers_batch(db.papers, db.next_id, unique_papers,
                                 env.now, env.faults)
        saved == [db EXCEPT !.papers = b.papers, !.next_id = b.next_id]
    IN  IF b.raised \/ env.log_fault
        THEN CrawlOutcome(saved, got, unique_papers, b.saved, TRUE)
        ELSE CrawlOutcome(
                 [saved EXCEPT !.crawl_history =
                      log_crawl_history(db.crawl_history, conference_name,
                                        year, b.count, "success", env.now)],
                 got, unique_papers, b.saved, FALSE)

\* Mutant: the attempt records the number of unique records, not the
\* number saved.
save_and_log_unique_count(db, conference_name, year, got, env) ==
    LET unique_papers == _deduplicate_papers(got.all_papers)
        b == insert_papers_batch(db.papers, db.next_id, unique_papers,
                                 env.now, env.faults)
        saved == [db EXCEPT !.papers = b.papers, !.next_id = b.next_id]
    IN  IF b.raised \/ env.log_fault
        THEN CrawlOutcome(saved, got, unique_papers, b.saved, TRUE)
        ELSE CrawlOutcome(
                 [saved EXCEPT !.crawl_history =
                      log_crawl_history(db.crawl_history, conference_name,
                                        year, Len(unique_papers),
                                        IF unique_papers # <<>>
                                        THEN "success" ELSE "empty",
                                        env.now)],
                 got, unique_papers, b.saved, FALSE)

\* Lines 69-81 of crawl_conference: deduplicate, save, record the attempt.
\* Neither call of the storage is inside a try block: an exception that
\* leaves insert_papers_batch (b.raised) or log_crawl_history
\* (env.log_fault: sqlite3.connect, cursor.execute or conn.commit raises)
\* leaves crawl_conference, with the rows written so far kept and no
\* attempt recorded.
save_and_log(db, conference_name, year, got, env) ==
    LET unique_papers == _deduplicate_papers(got.all_papers)
        b == insert_papers_batch(db.papers, db.next_id, unique_papers,
                                 env.now, env.faults)
        saved == [db EXCEPT !.papers = b.papers, !.next_id = b.next_id]
    IN  IF unique_papers # <<>>
        THEN \* saved_count = insert_papers_batch(unique_papers);
             \* log_crawl_history(conference_name, year, saved_count)
             IF b.raised \/ env.log_fault
             THEN CrawlOutcome(saved, got, unique_papers, b.saved, TRUE)
             ELSE CrawlOutcome(
                      [saved EXCEPT !.crawl_history =
                           log_crawl_history(db.crawl_history,
                                             conference_name, year, b.count,
                                             "success", env.now)],
                      got, unique_papers, b.saved, FALSE)
        ELSE \* log_crawl_history(conference_name, year, 0, "empty")
             IF env.log_fault
             THEN CrawlOutcome(db, got, unique_papers, {}, TRUE)
             ELSE CrawlOutcome(
                      [db EXCEPT !.crawl_history =
                           log_crawl_history(db.crawl_history,
                                             conference_name, year, 0,
                                             "empty", env.now)],
                      got, unique_papers, {}, FALSE)

NoPapers ==
    [all_papers |-> <<>>, fetches |-> 0, statuses |-> <<>>, yields |-> <<>>]

\* Mutant: crawl_conference with a loop that a failing crawler ends.
crawl_conference_abort(db, cfg, conference_name, year, env) ==
    save_and_log(db, conference_name, year,
                 crawl_loop_abort(crawlers(conference_name), 1,
                                  conference_name, year, cfg.retry_times,
                                  cfg.delay, env.worlds, NoPapers),
                 env)

\* crawl_conference(conference_name, year) on database db = [papers,
\* next_id, crawl_history] with crawler configuration cfg = [retry_times,
\* delay].  env is what the outside does during the call: env.worlds[i] is
\* the world of the i-th registered crawler, env.faults[i] the fault that
\* the insert of the i-th unique record meets, env.log_fault whether
\* log_crawl_history raises, env.now the time.
crawl_conference(db, cfg, conference_name, year, env) ==
    save_and_log(db, conference_name, year,
                 crawl_loop(crawlers(conference_name), 1, conference_name,
                            year, cfg.retry_times, cfg.delay, env.worlds,
                            NoPapers),
                 env)

\* The database part of an outcome.
DatabaseOf(r) ==
    [papers |-> r.papers, next_id |-> r.next_id,
     crawl_history |-> r.crawl_history]

\* What the outside does during one crawl_conference of a crawl_all, in
\* short: every registered crawler meets the same world, every insert the
\* same fault.  (A unique record comes from an entry of some crawler's
\* page, which bounds their number.)
EnvOf(weather, conference_name, t) ==
    [worlds |-> [i \in 1..Len(crawlers(conference_name)) |-> weather.world],
     faults |-> [i \in 1..(Len(crawlers(conference_name))
                             * Len(weather.world.entries)) |-> weather.fault],
     log_fault |-> weather.log_fault,
     now |-> t]

\* One more call of crawl_conference in the accumulator of crawl_all:
\* "try: self.crawl_conference(name, year) except Exception: ...".  The
\* k-th call of the run meets weathers[k].
Invoke(acc, cfg, name, year, weathers, t) ==
    LET r == crawl_conference(acc.db, cfg, name, year,
                              EnvOf(weathers[Len(acc.invoked) + 1], name, t))
    IN  [db |-> DatabaseOf(r),
         invoked |-> Append(acc.invoked,
                            [conference |-> name, year |-> year,
                             raised |-> r.raised]),
         upserted |-> acc.upserted
                      \cup {Key(r.unique_papers[i]) : i \in r.saved},
         raised |-> FALSE]

\* "for year in years:"
RECURSIVE years_loop(_, _, _, _, _, _, _)
years_loop(acc, cfg, name, years, j, weathers, t) ==
    IF j > Len(years) THEN acc
    ELSE years_loop(Invoke(acc, cfg, name, years[j], weathers, t), cfg, name,
                    years, j + 1, weathers, t)

\* Mutant: "for year in years:" without the try block, so that the first
\* call that raises ends the run.
RECURSIVE years_loop_abort(_, _, _, _, _, _, _)
years_loop_abort(acc, cfg, name, years, j, weathers, t) ==
    IF j > Len(years) \/ acc.raised THEN acc
    ELSE LET a == Invoke(acc, cfg, name, years[j], weathers, t)
         IN  years_loop_abort(
                 [a EXCEPT !.raised = a.invoked[Len(a.invoked)].raised],
                 cfg, name, years, j + 1, weathers, t)

RECURSIVE conferences_loop_abort(_, _, _, _, _, _)
conferences_loop_abort(acc, cfg, confs, i, weathers, t) ==
    IF i > Len(confs) \/ acc.raised THEN acc
    ELSE IF ~(confs[i].enabled = None \/ confs[i].enabled[1])
    THEN conferences_loop_abort(acc, cfg, confs, i + 1, weathers, t)
    ELSE conferences_loop_abort(
             years_loop_abort(acc, cfg, confs[i].name, confs[i].years, 1,
                              weathers, t),
             cfg, confs, i + 1, weathers, t)

crawl_all_abort(db, cfg, confs, weathers, t) ==
    conferences_loop_abort(
        [db |-> db, invoked |-> <<>>, upserted |-> {}, raised |-> FALSE],
        cfg, confs, 1, weathers, t)

\* "for conf in conferences: if not conf.get("enabled", True): continue"
RECURSIVE conferences_loop(_, _, _, _, _, _)
conferences_loop(acc, cfg, confs, i, weathers, t) ==
    IF i > Len(confs) THEN acc
    ELSE IF ~(confs[i].enabled = None \/ confs[i].enabled[1])
    THEN conferences_loop(acc, cfg, confs, i + 1, weathers, t)
    ELSE conferences_loop(
             years_loop(acc, cfg, confs[i].name, confs[i].years, 1,
                        weathers, t),
             cfg, confs, i + 1, weathers, t)

\* crawl_all() on database db with the configured list confs.
crawl_all(db, cfg, confs, weathers, t) ==
    conferences_loop(
        [db |-> db, invoked |-> <<>>, upserted |-> {}, raised |-> FALSE],
        cfg, confs, 1, weathers, t)

---------------------------------------------------------------------------
(* Initial states.                                                         *)

DefaultRetries == 3     \* self.config.get("retry_times", 3)
DefaultDelay   == 1     \* self.config.get("delay_between_requests", 1)

Delays == {0, DefaultDelay}

\* A row left by an earlier run and since marked as downloaded: the tables
\* are created IF NOT EXISTS, so the database may already hold rows.
Downloaded == Row(1, PaperA("X", "CCS", 2023), TRUE, "x.pdf", 0, 0)

InitPapers == {{}, {Downloaded}}

\* An entry of the configured list of conferences; enabled is optional
\* (conf.get("enabled", True)).
Conference(name, enabled, years) ==
    [name |-> name, enabled |-> enabled, years |-> years]

\* self.config.get("conferences", [])
NoConferences == <<>>

\* The configured lists: none; one with a disabled entry between enabled
\* ones, an entry without the flag and a name without crawlers; one whose
\* enabled entries are a name with two crawlers and an entry without years.
ConferenceLists ==
    {NoConferences,
     <<Conference("CCS", Some(TRUE), <<2023, 2024>>),
       Conference("USENIX Security", Some(FALSE), <<2023>>),
       Conference("ICSE", None, <<2023>>)>>,
     <<Conference("CCS", Some(FALSE), <<2023>>),
       Conference("CCS", None, <<>>),
       Conference("USENIX Security", Some(TRUE), <<2023>>)>>}

InitConfig(R, D, C) ==
    retry_times \in R /\ delay \in D /\ conferences \in C

InitDatabase(P) ==
    /\ papers \in P
    /\ next_id = Cardinality(papers) + 1
    /\ crawl_history = <<>>
    /\ now = 0

InitHistory ==
    /\ call = NoCall
    /\ ncrawls = 0
    /\ upserted = {Key(r) : r \in papers}

DB == [papers |-> papers, next_id |-> next_id, crawl_history |-> crawl_history]
Cfg == [retry_times |-> retry_times, delay |-> delay]

config == <<retry_times, delay, conferences>>
database == <<papers, next_id, crawl_history>>

---------------------------------------------------------------------------
(* Actions: one per operation.                                             *)

\* A call of fetch_page against some transport.
FetchPage ==
    \E transport \in Transports :
        /\ call' = [op |-> "fetch_page", transport |-> transport,
                    result |-> fetch_page(retry_times, delay, transport)]
        /\ UNCHANGED <<config, database, now, ncrawls, upserted>>

\* A call of _deduplicate_papers on some list of records.
Deduplicate ==
    \E ps \in SeqsUpTo(InputPapers, MaxLen) :
        /\ call' = [op |-> "_deduplicate_papers", papers |-> ps,
                    result |-> _deduplicate_papers(ps)]
        /\ UNCHANGED <<config, database, now, ncrawls, upserted>>

\* A call of insert_paper.
InsertPaper ==
    /\ \E p \in StoredPapers \cup {Untitled}, fault \in Faults :
        \E r \in {insert_paper(papers, next_id, p, now, fault)} :
            /\ papers' = r.papers
            /\ next_id' = r.next_id
            /\ upserted' = IF r.ok THEN upserted \cup {Key(p)} ELSE upserted
            /\ call' = [op |-> "insert_paper", paper |-> p, ok |-> r.ok,
                        raised |-> r.raised,
                        existed |-> Conflicts(papers, p) # {}]
    /\ UNCHANGED <<config, crawl_history, now, ncrawls>>

\* The batches handed to insert_papers_batch.
Batches ==
    {<<>>,
     <<PaperA("X", "CCS", 2023), Untitled, PaperA("Y", "CCS", 2023)>>,
     <<PaperA("X", "CCS", 2023), PaperB("X", "CCS", 2023)>>}

\* A call of insert_papers_batch.
InsertPapersBatch ==
    /\ \E ps \in Batches :
        \E faults \in [1..Len(ps) -> Faults] :
            \E b \in {insert_papers_batch(papers, next_id, ps, now, faults)} :
                /\ papers' = b.papers
                /\ next_id' = b.next_id
                /\ upserted' = upserted \cup {Key(ps[i]) : i \in b.saved}
                /\ call' = [op |-> "insert_papers_batch", papers |-> ps,
                            faults |-> faults, raised |-> b.raised,
                            count |-> b.count]
    /\ UNCHANGED <<config, crawl_history, now, ncrawls>>

QueryConferences == {None, Some(""), Some("CCS")}
QueryYears == {None, Some(0), Some(2023)}
QueryLimits == {None, Some(0), Some(1)}

\* A call of get_papers.
GetPapers ==
    /\ \E conference \in QueryConferences, year \in QueryYears,
          limit \in QueryLimits :
        \E result \in get_papers(papers, conference, year, limit) :
            call' = [op |-> "get_papers", conference |-> conference,
                     year |-> year, limit |-> limit, result |-> result]
    /\ UNCHANGED <<config, database, now, ncrawls, upserted>>

\* A call of get_statistics.
GetStatistics ==
    /\ call' = [op |-> "get_statistics", total_papers |-> total_papers(papers)]
    /\ UNCHANGED <<config, database, now, ncrawls, upserted>>

\* The wall clock advances.
Tick ==
    /\ now < MaxClock
    /\ now' = now + 1
    /\ UNCHANGED <<config, database, call, ncrawls, upserted>>

\* What a site may do during one crawl: every GET fails, or the first GET
\* fails and the next serves a page.
FailAll == [i \in 1..MaxRetries |-> "ConnectionError"]
FailOnce == [i \in 1..MaxRetries |-> IF i = 1 THEN "HTTPError" ELSE "html1"]

World(transport, entries, crash) ==
    [transport |-> transport, entries |-> entries, crash |-> crash]

CrawlerWorlds ==
    {World(FailAll, <<>>, FALSE)}
    \cup {World(FailOnce, es, FALSE) : es \in Pages}

\* The worlds of a crawl of the conference: one per registered crawler, and
\* for USENIXSecurityCrawler also the one in which its crawl raises.
WorldsOf(conference_name) ==
    {worlds \in [1..Len(crawlers(conference_name)) ->
                     CrawlerWorlds
                     \cup {World(FailOnce, <<Entry("X")>>, TRUE)}] :
        \A i \in DOMAIN worlds :
            worlds[i].crash =>
                crawlers(conference_name)[i] = "USENIXSecurityCrawler"}

\* "ICSE" is a name without registered crawlers.
CrawlConferences == {"CCS", "USENIX Security", "ICSE"}
CrawlYears == {2023}

\* The positions of the unique records of a crawl, whose inserts may fail.
UniqueOf(conference_name, year, worlds) ==
    _deduplicate_papers(
        crawl_loop(crawlers(conference_name), 1, conference_name, year,
                   retry_times, delay, worlds, NoPapers).all_papers)

\* A call of crawl_conference.
CrawlConference ==
    /\ ncrawls < MaxCrawls
    /\ \E conference_name \in CrawlConferences, year \in CrawlYears :
        \E worlds \in WorldsOf(conference_name) :
            \E faults \in
                   [1..Len(UniqueOf(conference_name, year, worlds)) -> Faults],
               log_fault \in BOOLEAN :
                \E r \in {crawl_conference(DB, Cfg, conference_name, year,
                              [worlds |-> worlds, faults |-> faults,
                               log_fault |-> log_fault, now |-> now])} :
                    /\ papers' = r.papers
                    /\ next_id' = r.next_id
                    /\ crawl_history' = r.crawl_history
                    /\ upserted' = upserted \cup
                           {Key(r.unique_papers[i]) : i \in r.saved}
                    /\ call' = [op |-> "crawl_conference",
                                conference |-> conference_name,
                                year |-> year,
                                fetches |-> r.fetches,
                                statuses |-> r.statuses,
                                yields |-> r.yields,
                                found |-> Len(r.all_papers),
                                unique |-> Len(r.unique_papers),
                                refused |-> Cardinality(
                                    {i \in DOMAIN faults :
                                        faults[i] # "none"}),
                                saved |-> Cardinality(r.saved),
                                saved_papers |->
                                    {r.unique_papers[i] : i \in r.saved},
                                raised |-> r.raised]
    /\ ncrawls' = ncrawls + 1
    /\ UNCHANGED <<config, now>>

\* What the outside may do during one crawl_conference of a crawl_all.
Weather(world, fault, log_fault) ==
    [world |-> world, fault |-> fault, log_fault |-> log_fault]

Fair == Weather(World(FailOnce, <<Entry("X")>>, FALSE), "none", FALSE)
Unreachable == Weather(World(FailAll, <<>>, FALSE), "none", FALSE)
Unopened == Weather(World(FailOnce, <<Entry("X")>>, FALSE), "connect", FALSE)
Unlogged == Weather(World(FailOnce, <<Entry("X")>>, FALSE), "none", TRUE)

Weathers == {Fair, Unreachable, Unopened, Unlogged}

\* The (conference, year) pairs of the enabled entries of the configured
\* list confs from entry i on, in order.
RECURSIVE Pairs(_, _)
Pairs(confs, i) ==
    IF i > Len(confs) THEN <<>>
    ELSE (IF confs[i].enabled \in {None, Some(TRUE)}
          THEN [j \in 1..Len(confs[i].years) |->
                   <<confs[i].name, confs[i].years[j]>>]
          ELSE <<>>)
         \o Pairs(confs, i + 1)

\* A call of crawl_all.
CrawlAll ==
    /\ ncrawls < MaxCrawls
    /\ \E weathers \in [1..Len(Pairs(conferences, 1)) -> Weathers] :
        \E r \in {crawl_all(DB, Cfg, conferences, weathers, now)} :
            /\ papers' = r.db.papers
            /\ next_id' = r.db.next_id
            /\ crawl_history' = r.db.crawl_history
            /\ upserted' = upserted \cup r.upserted
            /\ ncrawls' = ncrawls + Len(r.invoked)
            /\ call' = [op |-> "crawl_all", invoked |-> r.invoked,
                        raised |-> r.raised]
    /\ UNCHANGED <<config, now>>

---------------------------------------------------------------------------
(* Specifications.                                                         *)

\* The fetcher alone, under every configured retry count.
InitFetch ==
    /\ InitConfig(0..MaxRetries, Delays, {NoConferences})
    /\ InitDatabase({{}})
    /\ InitHistory

SpecFetch == InitFetch /\ [][FetchPage]_vars

\* The deduplicator alone.
InitDedup ==
    /\ InitConfig({DefaultRetries}, {DefaultDelay}, {NoConferences})
    /\ InitDatabase({{}})
    /\ InitHistory

SpecDedup == InitDedup /\ [][Deduplicate]_vars

\* The storage, used directly.
InitStore ==
    /\ InitConfig({DefaultRetries}, {DefaultDelay}, {NoConferences})
    /\ InitDatabase(InitPapers)
    /\ InitHistory

NextStore ==
    \/ InsertPaper
    \/ InsertPapersBatch
    \/ GetStatistics
    \/ Tick

SpecStore == InitStore /\ [][NextStore]_vars

\* The storage and its query.
NextQuery ==
    \/ InsertPaper
    \/ GetPapers
    \/ Tick

SpecQuery == InitStore /\ [][NextQuery]_vars

\* The manager on top of the crawlers and the storage.
InitCrawl ==
    /\ InitConfig({DefaultRetries}, {DefaultDelay}, {NoConferences})
    /\ InitDatabase(InitPapers)
    /\ InitHistory

NextCrawl ==
    \/ CrawlConference
    \/ Tick

SpecCrawl == InitCrawl /\ [][NextCrawl]_vars

\* The manager running over its configured list.
InitCrawlAll ==
    /\ InitConfig({DefaultRetries}, {DefaultDelay}, ConferenceLists)
    /\ InitDatabase(InitPapers)
    /\ InitHistory

NextCrawlAll ==
    \/ CrawlAll
    \/ Tick

SpecCrawlAll == InitCrawlAll /\ [][NextCrawlAll]_vars

\* The whole program.
Init ==
    /\ InitConfig(0..MaxRetries, Delays, ConferenceLists)
    /\ InitDatabase(InitPapers)
    /\ InitHistory

Next ==
    \/ FetchPage
    \/ Deduplicate
    \/ InsertPaper
    \/ InsertPapersBatch
    \/ GetPapers
    \/ GetStatistics
    \/ CrawlConference
    \/ CrawlAll
    \/ Tick

Spec == Init /\ [][Next]_vars

---------------------------------------------------------------------------
(* The fetcher's claims, under SpecFetch.                                  *)

\* C1: with retry_times = N >= 1, a transport that fails on the first k < N
\* attempts and succeeds on attempt k+1 makes fetch_page return that
\* attempt's body after exactly k+1 GETs; a transport that fails on every
\* attempt makes it raise the error after exactly N GETs.
C1_RetryThenReturnOrRaise ==
    (call.op = "fetch_page" /\ retry_times >= 1) =>
        LET first == FirstSuccess(call.transport, retry_times)
            r == call.result
        IN  IF first > 0
            THEN /\ r.outcome = "return"
                 /\ r.value = call.transport[first]
                 /\ Gets(r.events) = first
            ELSE /\ r.outcome = "raise"
                 /\ r.value = call.transport[retry_times]
                 /\ Gets(r.events) = retry_times

\* C1 witness: retries = 3, two failures, then the body of the third GET.
C1_Witness ==
    /\ call.op = "fetch_page"
    /\ retry_times = 3
    /\ call.transport[1] \in RequestExceptions
    /\ call.transport[2] \in RequestExceptions
    /\ call.transport[3] = "html2"
    /\ call.result.outcome = "return"
    /\ call.result.value = "html2"
    /\ Gets(call.result.events) = 3

\* C2: for every retry_times, 0 included, fetch_page returns a value only
\* when some GET succeeded, and then the body of that GET; in every other
\* case it raises and returns nothing.
C2_ReturnOnlyAfterSuccess ==
    call.op = "fetch_page" =>
        LET first == FirstSuccess(call.transport, retry_times)
            r == call.result
        IN  IF first > 0
            THEN r.outcome = "return" /\ r.value = call.transport[first]
            ELSE r.outcome = "raise"

\* C14: in the events of a call of fetch_page, a failed GET of attempt i
\* that is not the last of the retry_times attempts is followed by a wait
\* of 2^i seconds and then by the GET of attempt i + 1; a successful GET is
\* followed by one sleep of delay seconds, which ends the call; no sleep of
\* the delay follows a failed GET, no wait follows a successful one, and
\* at most retry_times GETs are made.
C14_BackoffAndDelay ==
    call.op = "fetch_page" =>
        LET ev == call.result.events
            Failed(k) == call.transport[ev[k].arg + 1] \in RequestExceptions
        IN  /\ Gets(ev) <= retry_times
            /\ \A k \in 1..Len(ev) :
                   /\ (ev[k].type = "GET" /\ Failed(k)
                          /\ ev[k].arg < retry_times - 1) =>
                          /\ k + 2 <= Len(ev)
                          /\ ev[k + 1] = Event("backoff", Pow2(ev[k].arg))
                          /\ ev[k + 2] = Event("GET", ev[k].arg + 1)
                   /\ (ev[k].type = "GET" /\ Failed(k)
                          /\ ev[k].arg = retry_times - 1) =>
                          /\ k = Len(ev)
                          /\ call.result.outcome = "raise"
                   /\ (ev[k].type = "GET" /\ ~Failed(k)) =>
                          /\ k + 1 = Len(ev)
                          /\ ev[k + 1] = Event("delay", delay)
                          /\ call.result.outcome = "return"
                   /\ ev[k].type = "delay" =>
                          /\ k > 1
                          /\ ev[k - 1].type = "GET"
                          /\ ~Failed(k - 1)
                   /\ ev[k].type = "backoff" =>
                          /\ k > 1
                          /\ ev[k - 1].type = "GET"
                          /\ Failed(k - 1)
            /\ Cardinality({k \in 1..Len(ev) : ev[k].type = "delay"}) <= 1

\* C14 witness: three attempts with delay 1, of which the first two fail:
\* waits of 1 and 2 seconds, then the delay once.
C14_Witness ==
    /\ call.op = "fetch_page"
    /\ retry_times = 3
    /\ delay = 1
    /\ call.transport[1] \in RequestExceptions
    /\ call.transport[2] \in RequestExceptions
    /\ call.transport[3] \in Bodies
    /\ call.result.events =
           <<Event("GET", 0), Event("backoff", 1), Event("GET", 1),
             Event("backoff", 2), Event("GET", 2), Event("delay", 1)>>

---------------------------------------------------------------------------
(* The deduplicator's claims, under SpecDedup.                             *)

\* The positions of ps that hold the first occurrence of their key.
FirstOccurrences(ps) ==
    {i \in 1..Len(ps) : \A j \in 1..(i - 1) : Key(ps[j]) # Key(ps[i])}

\* The k-th smallest member of the set F of positions.
Kth(F, k) == CHOOSE i \in F : Cardinality({j \in F : j <= i}) = k

\* C5: _deduplicate_papers returns exactly the first occurrence of each
\* (title, conference, year), in input order; so the output is no longer
\* than the input and its keys are pairwise distinct.
C5_FirstOccurrences ==
    call.op = "_deduplicate_papers" =>
        LET ps == call.papers
            out == call.result
            F == FirstOccurrences(ps)
        IN  /\ Len(out) = Cardinality(F)
            /\ \A k \in 1..Len(out) : out[k] = ps[Kth(F, k)]
            /\ Len(out) <= Len(ps)
            /\ \A a, b \in 1..Len(out) : a # b => Key(out[a]) # Key(out[b])

\* C5 witness: a key that comes back later with another content is dropped.
C5_Witness ==
    /\ call.op = "_deduplicate_papers"
    /\ Len(call.papers) = 3
    /\ Key(call.papers[1]) = Key(call.papers[3])
    /\ call.papers[1] # call.papers[3]
    /\ Key(call.papers[1]) # Key(call.papers[2])
    /\ call.result = <<call.papers[1], call.papers[2]>>

\* C6: deduplicating the output of _deduplicate_papers gives that output
\* again, record for record.
C6_Idempotent ==
    call.op = "_deduplicate_papers" =>
        _deduplicate_papers(call.result) = call.result

\* C6 witness: an input with a duplicate, so that the first pass removed
\* something.
C6_Witness ==
    /\ call.op = "_deduplicate_papers"
    /\ Len(call.papers) = 3
    /\ Len(call.result) = 1
    /\ call.papers[2] # call.papers[1]

---------------------------------------------------------------------------
(* The manager's claims, under SpecCrawl.                                  *)

\* C3: every call of crawl_conference appends exactly one row to
\* crawl_history, for its (conference, year), with status "success" exactly
\* when its count is > 0 and "empty" exactly when its count is 0.
C3_OneAttemptWithStatus ==
    /\ Len(crawl_history) = ncrawls
    /\ call.op = "crawl_conference" =>
           /\ crawl_history[Len(crawl_history)].conference = call.conference
           /\ crawl_history[Len(crawl_history)].year = call.year
    /\ \A i \in 1..Len(crawl_history) :
           /\ crawl_history[i].status = "success"
                  <=> crawl_history[i].papers_count > 0
           /\ crawl_history[i].status = "empty"
                  <=> crawl_history[i].papers_count = 0

\* C4: crawl_conference with a name that has no registered crawlers makes
\* no fetch, leaves table papers as it is and appends one row to
\* crawl_history, with status "empty" and count 0 (the row is the one
\* write of the call: it is there unless the storage refuses that write).
C4_UnregisteredConference ==
    [][(/\ ncrawls' = ncrawls + 1
        /\ call'.op = "crawl_conference"
        /\ crawlers(call'.conference) = <<>>) =>
          /\ call'.fetches = 0
          /\ papers' = papers
          /\ next_id' = next_id
          /\ ~call'.raised =>
                 crawl_history' =
                     Append(crawl_history,
                            [id |-> Len(crawl_history) + 1,
                             conference |-> call'.conference,
                             year |-> call'.year, papers_count |-> 0,
                             status |-> "empty", error_message |-> NULL,
                             created_at |-> now])]_vars

\* C4 witness: an unregistered name crawled over a table that holds a row.
C4_Witness ==
    /\ call.op = "crawl_conference"
    /\ call.conference = "ICSE"
    /\ ~call.raised
    /\ call.fetches = 0
    /\ papers = {Downloaded}
    /\ Len(crawl_history) = 1
    /\ crawl_history[1].status = "empty"
    /\ crawl_history[1].papers_count = 0

RECURSIVE Sum(_)
Sum(ns) == IF ns = <<>> THEN 0 ELSE ns[1] + Sum(Tail(ns))

\* C13: in a call of crawl_conference in which a parser failed (its fetch
\* ran out of retries, or its crawl raised), every registered parser was
\* still run, the failed ones gave no record, the records found are those
\* of the others, deduplicated; the ones whose upsert succeeded are stored,
\* and, unless the storage itself made the call raise, each unique record
\* was upserted or refused by the storage and one attempt was recorded for
\* the (conference, year) with the number saved.
C13_FailedParserContributesNothing ==
    [][(/\ ncrawls' = ncrawls + 1
        /\ call'.op = "crawl_conference"
        /\ \E i \in DOMAIN call'.statuses : call'.statuses[i] # "ok") =>
          /\ Len(call'.statuses) = Len(crawlers(call'.conference))
          /\ \A i \in DOMAIN call'.statuses :
                 call'.statuses[i] # "ok" => call'.yields[i] = 0
          /\ call'.found = Sum(call'.yields)
          /\ call'.unique <= call'.found
          /\ call'.found > 0 => call'.unique > 0
          /\ \A p \in call'.saved_papers :
                 \E r \in papers' : PaperOf(r) = p
          /\ ~call'.raised =>
                 /\ call'.saved = call'.unique - call'.refused
                 /\ Len(crawl_history') = Len(crawl_history) + 1
                 /\ LET row == crawl_history'[Len(crawl_history')]
                    IN  /\ row.conference = call'.conference
                        /\ row.year = call'.year
                        /\ row.papers_count = call'.saved]_vars

\* C13 witness: the fetch of the first parser of "USENIX Security" runs out
\* of retries, the second parser gives one record, which is stored and
\* counted in the attempt.
C13_Witness ==
    /\ call.op = "crawl_conference"
    /\ call.conference = "USENIX Security"
    /\ call.statuses = <<"caught", "ok">>
    /\ call.yields = <<0, 1>>
    /\ call.fetches = 2
    /\ call.saved = 1
    /\ ~call.raised
    /\ Len(crawl_history) = 1
    /\ crawl_history[1].papers_count = 1
    /\ \E r \in papers :
          r.conference = "USENIX Security" /\ r.abstract = "abs"

\* C15: the attempt that a call of crawl_conference records carries the
\* number of unique records whose upsert succeeded in the call: at most
\* the number of unique records, one less for each upsert that failed; and
\* each record upserted with success is in table papers, under its key,
\* when the attempt is recorded.
C15_CountIsSaved ==
    [][(/\ ncrawls' = ncrawls + 1
        /\ call'.op = "crawl_conference"
        /\ Len(crawl_history') > Len(crawl_history)) =>
          LET row == crawl_history'[Len(crawl_history')]
          IN  /\ Len(crawl_history') = Len(crawl_history) + 1
              /\ row.papers_count = Cardinality(call'.saved_papers)
              /\ row.papers_count <= call'.unique
              /\ row.papers_count = call'.unique - call'.refused
              /\ \A p \in call'.saved_papers :
                     \E r \in papers' : Key(r) = Key(p) /\ PaperOf(r) = p]_vars

\* C15 witness: two unique records, the upsert of one of them fails, the
\* attempt counts one.
C15_Witness ==
    /\ call.op = "crawl_conference"
    /\ call.unique = 2
    /\ call.refused = 1
    /\ call.saved = 1
    /\ Len(crawl_history) = 1
    /\ crawl_history[1].papers_count = 1
    /\ crawl_history[1].status = "success"

---------------------------------------------------------------------------
(* The claim of crawl_all, under SpecCrawlAll.                             *)

\* C12: a call of crawl_all calls crawl_conference once for each
\* (conference, year) of each enabled entry of the configured list, in the
\* order of the list, and for no other pair, whichever of these calls
\* raise; crawl_all itself does not raise.
C12_EveryEnabledPairOnce ==
    call.op = "crawl_all" =>
        /\ ~call.raised
        /\ [k \in 1..Len(call.invoked) |->
                <<call.invoked[k].conference, call.invoked[k].year>>]
               = Pairs(conferences, 1)
        /\ \A k \in 1..Len(call.invoked) :
               \E i \in 1..Len(conferences) :
                   /\ conferences[i].name = call.invoked[k].conference
                   /\ conferences[i].enabled # Some(FALSE)

\* C12 witness: three pairs, the call for the first raises, and the calls
\* for the other two are made and record their attempts.
C12_Witness ==
    /\ call.op = "crawl_all"
    /\ Len(call.invoked) = 3
    /\ call.invoked[1].raised
    /\ ~call.invoked[2].raised
    /\ ~call.invoked[3].raised
    /\ call.invoked[3].conference = "ICSE"
    /\ Len(crawl_history) = 2
    /\ crawl_history[1].year = 2024
    /\ crawl_history[2].conference = "ICSE"

---------------------------------------------------------------------------
(* The storage's claims, under SpecStore and SpecQuery.                    *)

\* C7: an insert_paper of a record whose (title, conference, year) is
\* already stored sets the row's authors, abstract, pdf_url, paper_url, doi
\* and updated_at to the new values (an absent value replacing a stored one
\* included) and leaves its id, created_at, downloaded and local_path, and
\* every other row, unchanged; one row holds the key afterwards.  (A step
\* that ends in a call of insert_paper without moving the clock is a step of
\* InsertPaper.)
C7_UpsertUpdatesInPlace ==
    [][(/\ call'.op = "insert_paper"
        /\ now' = now
        /\ call'.ok
        /\ call'.existed) =>
          LET p == call'.paper
              old == CHOOSE r \in papers : Key(r) = Key(p)
          IN  /\ Cardinality({r \in papers' : Key(r) = Key(p)}) = 1
              /\ \E new \in papers' :
                    /\ Key(new) = Key(p)
                    /\ new.authors = p.authors
                    /\ new.abstract = p.abstract
                    /\ new.pdf_url = p.pdf_url
                    /\ new.paper_url = p.paper_url
                    /\ new.doi = p.doi
                    /\ new.updated_at = now
                    /\ new.id = old.id
                    /\ new.created_at = old.created_at
                    /\ new.downloaded = old.downloaded
                    /\ new.local_path = old.local_path
                    /\ papers' \ {new} = papers \ {old}]_vars

\* C7 witness: authors "A" with every field set, then authors "B" with the
\* optional fields absent, on a row that was marked as downloaded.
C7_Witness ==
    /\ call.op = "insert_paper"
    /\ call.ok
    /\ call.existed
    /\ call.paper = PaperB("X", "CCS", 2023)
    /\ \E r \in papers :
          /\ PaperOf(r) = call.paper
          /\ r.downloaded
          /\ r.local_path = "x.pdf"
          /\ r.created_at = 0
          /\ r.updated_at = 1
    /\ Cardinality(papers) = 3

\* C8: no two rows share (title, conference, year), and total_papers is the
\* number of distinct keys upserted with success; an upsert of a stored key
\* leaves total_papers as it is.
C8_UniqueKeys ==
    /\ \A r1, r2 \in papers : Key(r1) = Key(r2) => r1 = r2
    /\ total_papers(papers) = Cardinality(upserted)

\* C8 witness: a stored key upserted again, two rows before and after.
C8_Witness ==
    /\ call.op = "insert_paper"
    /\ call.ok
    /\ call.existed
    /\ call.paper = PaperA("Y", "CCS", 2023)
    /\ total_papers(papers) = 2
    /\ Cardinality(upserted) = 2

\* C9: after insert_paper succeeds for a record, get_papers with that
\* record's conference and year and no limit returns a row with the record's
\* title, authors, conference, year, abstract, pdf_url, paper_url and doi.
C9_UpsertThenQuery ==
    (call.op = "insert_paper" /\ call.ok) =>
        \A result \in get_papers(papers, Some(call.paper.conference),
                                 Some(call.paper.year), None) :
            \E i \in 1..Len(result) : PaperOf(result[i]) = call.paper

\* C9 witness: the record of year 0 upserted into a table of other rows.
C9_Witness ==
    /\ call.op = "insert_paper"
    /\ call.ok
    /\ call.paper.year = 0
    /\ ~call.existed
    /\ Cardinality(papers) = 3

\* The positions of the batch ps whose upsert meets no storage failure: no
\* I/O fault, and a title and a conference to satisfy NOT NULL.
Sound(ps, faults) ==
    {i \in 1..Len(ps) :
        faults[i] = "none" /\ ps[i].title # NULL /\ ps[i].conference # NULL}

\* The last position of S that holds the key of ps[i].
LastOf(ps, S, i) ==
    CHOOSE j \in S :
        /\ Key(ps[j]) = Key(ps[i])
        /\ \A k \in S : Key(ps[k]) = Key(ps[i]) => k <= j

\* C11: insert_papers_batch never raises, whatever storage failure a
\* record meets; it returns the number of records that met none, and every
\* such record is stored afterwards (with the content of the last such
\* record of its key, the records being upserted in order), be it before
\* or after a record that failed.
C11_BatchCountsAndContinues ==
    call.op = "insert_papers_batch" =>
        LET ps == call.papers
            good == Sound(ps, call.faults)
        IN  /\ ~call.raised
            /\ call.count = Cardinality(good)
            /\ \A i \in good :
                   \E r \in papers : PaperOf(r) = ps[LastOf(ps, good, i)]

\* C11 for the failures that insert_paper catches: those of cursor.execute
\* and conn.commit, the NOT NULL violation of a record without title
\* included.
C11_CaughtFailures ==
    (/\ call.op = "insert_papers_batch"
     /\ \A i \in 1..Len(call.papers) : call.faults[i] # "connect") =>
        LET ps == call.papers
            good == Sound(ps, call.faults)
        IN  /\ ~call.raised
            /\ call.count = Cardinality(good)
            /\ \A i \in good :
                   \E r \in papers : PaperOf(r) = ps[LastOf(ps, good, i)]

\* C10: get_papers returns only rows that meet each predicate that was
\* given, at most limit rows when a limit was given, newest first by
\* created_at; year = 0, limit = 0 and conference = "" are given values.
C10_QueryHonoursArguments ==
    call.op = "get_papers" =>
        LET result == call.result
        IN  /\ call.conference # None =>
                  \A i \in 1..Len(result) :
                      result[i].conference = call.conference[1]
            /\ call.year # None =>
                  \A i \in 1..Len(result) : result[i].year = call.year[1]
            /\ call.limit # None => Len(result) <= call.limit[1]
            /\ \A i, j \in 1..Len(result) :
                  i < j => result[i].created_at >= result[j].created_at

===========================================================================
